---------------------------- MODULE Spec2Model ----------------------------
(***************************************************************************)
(* A model of the RISK lobby scanner (src/src/detector.rs) and of the      *)
(* application state that drives it (src/src/app.rs).                      *)
(*                                                                         *)
(* Strings are sequences of Unicode scalar values (code points), so that   *)
(* Rust's byte length, prefix test, lowercasing and space removal are      *)
(* computed the way the code computes them.                                *)
(***************************************************************************)
EXTENDS Integers, Sequences, FiniteSets

(***************************************************************************)
(* Bounds of the model.                                                    *)
(***************************************************************************)
\* longest tail appended to a head when enumerating inputs of normalize
MaxTail == 2
\* most entries in the blacklist file
MaxMorons == 2
\* most ScanRisk messages handled in one run of the application
MaxScanRuns == 2
\* how many messages may wait for update
MaxInbox == 1

(***************************************************************************)
(* Strings.                                                                *)
(***************************************************************************)
\* code points used by the model: ' ', 'A', 'a', 'b', 'x', U+00C9 (E acute),
\* U+00E9 (e acute), U+0130 (I with dot above), U+0307 (combining dot above)
SPACE == 32

\* "General " (detector.rs:246)
prefix == <<71, 101, 110, 101, 114, 97, 108, 32>>

\* "General" without the trailing space; a mutant of prefix
prefix_no_space == <<71, 101, 110, 101, 114, 97, 108>>

\* number of bytes of the UTF-8 encoding of one code point
utf8_len(c) ==
    IF c < 128 THEN 1 ELSE IF c < 2048 THEN 2 ELSE IF c < 65536 THEN 3 ELSE 4

RECURSIVE len(_)
\* str::len: the length in BYTES
len(s) == IF s = <<>> THEN 0 ELSE utf8_len(Head(s)) + len(Tail(s))

\* str::starts_with
starts_with(s, p) == Len(s) >= Len(p) /\ SubSeq(s, 1, Len(p)) = p

\* char::to_lowercase: ASCII and Latin-1 capitals move by 32; U+0130 lowers
\* to the two code points 'i' U+0307; everything else is unchanged
lower_char(c) ==
    IF c >= 65 /\ c <= 90 THEN <<c + 32>>
    ELSE IF c >= 192 /\ c <= 222 /\ c # 215 THEN <<c + 32>>
    ELSE IF c = 304 THEN <<105, 775>>
    ELSE <<c>>

RECURSIVE to_lowercase(_)
\* str::to_lowercase
to_lowercase(s) ==
    IF s = <<>> THEN <<>> ELSE lower_char(Head(s)) \o to_lowercase(Tail(s))

\* str::replace(" ", "")
remove_spaces(s) == SelectSeq(s, LAMBDA c : c # SPACE)

RECURSIVE remove_first_space(_)
\* str::replacen(" ", "", 1); a mutant of remove_spaces
remove_first_space(s) ==
    IF s = <<>> THEN <<>>
    ELSE IF Head(s) = SPACE THEN Tail(s)
    ELSE <<Head(s)>> \o remove_first_space(Tail(s))

\* normalize with the prefix test made on "General" alone; a mutant
normalize_loose_prefix(input) ==
    LET normalized_without_prefix ==
            IF starts_with(input, prefix_no_space)
            THEN SubSeq(input, Len(prefix_no_space) + 1, Len(input))
            ELSE input
    IN  remove_spaces(to_lowercase(normalized_without_prefix))

\* normalize removing only the first space; a mutant
normalize_first_space(input) ==
    LET normalized_without_prefix ==
            IF starts_with(input, prefix)
            THEN SubSeq(input, Len(prefix) + 1, Len(input))
            ELSE input
    IN  remove_first_space(to_lowercase(normalized_without_prefix))

\* detector.rs normalize: strip "General " once, lowercase, remove spaces
normalize(input) ==
    LET normalized_without_prefix ==
            IF starts_with(input, prefix)
            THEN SubSeq(input, Len(prefix) + 1, Len(input))
            ELSE input
    IN  remove_spaces(to_lowercase(normalized_without_prefix))

(***************************************************************************)
(* fuzzywuzzy::fuzz::ratio, called at detector.rs:95.  The crate computes  *)
(* round(100 * 2M / T) where T is the summed byte length of both strings   *)
(* and M the summed size of the matching blocks (longest common block,     *)
(* then recursively to its left and to its right), after the trivial       *)
(* cases: equal strings give 100, exactly one empty string gives 0.        *)
(***************************************************************************)
\* the UTF-8 bytes of one code point (up to three bytes: the Basic Plane)
utf8_char(c) ==
    IF c < 128 THEN <<c>>
    ELSE IF c < 2048 THEN <<192 + (c \div 64), 128 + (c % 64)>>
    ELSE <<224 + (c \div 4096), 128 + ((c \div 64) % 64), 128 + (c % 64)>>

RECURSIVE utf8(_)
utf8(s) == IF s = <<>> THEN <<>> ELSE utf8_char(Head(s)) \o utf8(Tail(s))

\* all common blocks <<i, j, k>>: a[i .. i+k-1] = b[j .. j+k-1], k >= 1
common_blocks(a, b) ==
    {t \in (1..Len(a)) \X (1..Len(b)) \X (1..Len(a)) :
        /\ t[1] + t[3] - 1 <= Len(a)
        /\ t[2] + t[3] - 1 <= Len(b)
        /\ SubSeq(a, t[1], t[1] + t[3] - 1) = SubSeq(b, t[2], t[2] + t[3] - 1)}

\* the longest block, the earliest in a and then in b among the longest
block_before(t, u) ==
    \/ t[3] > u[3]
    \/ t[3] = u[3] /\ t[1] < u[1]
    \/ t[3] = u[3] /\ t[1] = u[1] /\ t[2] <= u[2]

longest_match(a, b) ==
    CHOOSE t \in common_blocks(a, b) :
        \A u \in common_blocks(a, b) : block_before(t, u)

RECURSIVE matching_size(_, _)
matching_size(a, b) ==
    IF common_blocks(a, b) = {} THEN 0
    ELSE LET m == longest_match(a, b)
         IN  m[3]
             + matching_size(SubSeq(a, 1, m[1] - 1), SubSeq(b, 1, m[2] - 1))
             + matching_size(SubSeq(a, m[1] + m[3], Len(a)),
                             SubSeq(b, m[2] + m[3], Len(b)))

\* ratio that skips the equal-strings shortcut and truncates; a mutant
ratio_truncating(s1, s2) ==
    IF (s1 = <<>>) # (s2 = <<>>) THEN 0
    ELSE LET a == utf8(s1)
             b == utf8(s2)
             total == Len(a) + Len(b)
             m == IF Len(a) <= Len(b) THEN matching_size(a, b)
                  ELSE matching_size(b, a)
         IN  IF total > 0 THEN (199 * m) \div total ELSE 100

ratio(s1, s2) ==
    IF s1 = s2 THEN 100
    ELSE IF (s1 = <<>>) # (s2 = <<>>) THEN 0
    ELSE LET a == utf8(s1)
             b == utf8(s2)
             total == Len(a) + Len(b)
             m == IF Len(a) <= Len(b) THEN matching_size(a, b)
                  ELSE matching_size(b, a)
         IN  IF total > 0 THEN (400 * m + total) \div (2 * total) ELSE 100

(***************************************************************************)
(* Geometry of crop_player_cards_1920_1080 (detector.rs:144-185).  An      *)
(* image is the rectangle of the captured window it shows.                 *)
(***************************************************************************)
player_list_width == 1200
player_list_height == 550
player_card_width == 600
player_card_height == 180
\* 2^31 - 1; Rust's u32 subtraction wraps modulo 2^32 on overflow when the
\* build has overflow checks off
U32HalfMax == 2147483647

Min(a, b) == IF a <= b THEN a ELSE b

\* the rectangle x, y, w, h of a capture of a window of size src
Image(x, y, w, h, src) == [x |-> x, y |-> y, w |-> w, h |-> h, src |-> src]

\* image::DynamicImage::crop: the rectangle is clamped to the image
crop(image, x, y, width, height) ==
    LET cx == Min(x, image.w)
        cy == Min(y, image.h)
    IN  Image(image.x + cx, image.y + cy,
              Min(width, image.w - cx), Min(height, image.h - cy), image.src)

\* whether image.width() - size overflows u32 (detector.rs:154-155)
sub_overflows(dim, size) == dim < size

\* (dim - size) / 2 in u32 with wrapping subtraction:
\* ((2^32 + dim - size) / 2) = 2^31 + floor((dim - size) / 2) on overflow
list_start(dim, size) ==
    IF dim >= size THEN (dim - size) \div 2
    ELSE (U32HalfMax + ((dim - size) \div 2)) + 1

\* detector.rs:156-161
player_list_image(image) ==
    crop(image,
         list_start(image.w, player_list_width),
         list_start(image.h, player_list_height),
         player_list_width, player_list_height)

\* a card origin that slides rows by the list height over three; a mutant
card_start_y_thirds(row) == row * (player_list_height \div 3)

\* detector.rs:170-171
card_start_x(col) == col * player_card_width
card_start_y(row) == row * player_card_height

\* detector.rs:172-176
player_card_image(list_image, row, col) ==
    crop(list_image, card_start_x(col), card_start_y(row),
         player_card_width, player_card_height)

\* column-major numbering; a mutant of player_card_index
player_card_index_col_major(row, col) == col * 3 + row

\* detector.rs:177
player_card_index(row, col) == row * 2 + col

\* the (row, col) pairs in the order of the nested loops (detector.rs:168-169)
card_loop == [k \in 1..6 |-> <<(k - 1) \div 2, (k - 1) % 2>>]

\* a file is <<>> when absent and <<image, writer>> when it holds an image,
\* writer being (as history) the number of the scan that saved it, 0 when
\* that is not recorded
NoFile == <<>>

File(image, writer) == <<image, writer>>

RECURSIVE save_cards(_, _, _, _)
\* the crop files after the first n iterations of the loop have saved theirs
save_cards(files, list_image, n, writer) ==
    IF n = 0 THEN files
    ELSE LET before == save_cards(files, list_image, n - 1, writer)
             row == card_loop[n][1]
             col == card_loop[n][2]
         IN  [before EXCEPT ![player_card_index(row, col)] =
                    File(player_card_image(list_image, row, col), writer)]

(***************************************************************************)
(* The environment: the blacklist file, the lobby on screen, the window.   *)
(***************************************************************************)
\* usernames: "A b", "abx", "xb"
Usernames == {<<65, 32, 98>>, <<97, 98, 120>>, <<120, 98>>}

Moron(username) == [username |-> username, reason |-> "spam"]

RECURSIVE SeqsUpTo(_, _)
\* the sequences over S of length at most n
SeqsUpTo(S, n) ==
    IF n = 0 THEN {<<>>}
    ELSE LET shorter == SeqsUpTo(S, n - 1)
         IN  shorter \cup {Append(q, e) : q \in shorter, e \in S}

\* a blacklist.json that serde_json rejects
CorruptFile == [valid |-> FALSE, morons |-> <<>>]

\* what blacklist.json may hold: a list of morons, or text serde rejects
BlacklistFiles ==
    {[valid |-> TRUE, morons |-> [j \in 1..Len(q) |-> Moron(q[j])]] :
        q \in SeqsUpTo(Usernames, MaxMorons)} \cup {CorruptFile}

\* what the OCR engine reads on one player card, line by line:
\* "General A b" / "x"   and   "" / U+00C9 / "X b"
CardTexts == {<<prefix \o <<65, 32, 98>>, <<120>>>>,
              <<<<>>, <<201>>, <<88, 32, 98>>>>}

\* a picture without a player card reads as one empty line
BlankText == <<<<>>>>

\* where the game draws its six player cards inside the player list
SlotOrigins ==
    {<<0, 0>>, <<600, 0>>, <<0, 180>>, <<600, 180>>, <<0, 360>>, <<600, 360>>}

\* the lobbies: every card reads the same, or one card differs from the rest
Lobbies ==
    {l \in [SlotOrigins -> CardTexts] :
        \E t \in CardTexts : Cardinality({o \in SlotOrigins : l[o] # t}) <= 1}

\* sizes of the RISK window: the reference size, the bare player list, a
\* window a little larger than the list, one too narrow, one too low
WindowSizes ==
    {<<1920, 1080>>, <<1200, 550>>, <<1301, 601>>, <<1000, 1080>>, <<1920, 500>>}

(***************************************************************************)
(* State.                                                                  *)
(***************************************************************************)
VARIABLES
    \* BlitzApp (app.rs:13-17) and the rows last rendered by view
    error, scans, done_initial_scan, rows,
    \* the ScanRisk handler's position inside detector::scan, its result
    pc, ret,
    \* locals of scan
    blacklist, engine, detections, i,
    \* history of the running scan: the stages entered, the one that failed
    stages, failed,
    \* the environment and the files of the app directory
    blacklist_file, lobby, window, scrshot, crops,
    \* the number of ScanRisk messages handled so far
    runs,
    \* the messages of the user interface that update has not yet been given
    inbox,
    \* the harness applying normalize to enumerated inputs
    nz_t, nz_op, nz_out

vars == <<error, scans, done_initial_scan, rows, pc, ret, blacklist, engine,
          detections, i, stages, failed, blacklist_file, lobby, window,
          scrshot, crops, runs, inbox, nz_t, nz_op, nz_out>>

appVars == <<error, scans, done_initial_scan, rows>>
scanVars == <<pc, ret, blacklist, engine, detections, i, stages, failed>>
envVars == <<blacklist_file, lobby, window>>
diskVars == <<scrshot, crops>>
nzVars == <<nz_t, nz_op, nz_out>>

None == "None"
Scanning == "Scanning - Please wait."
NoRet == [kind |-> "none", msg |-> "", scans |-> <<>>]
Ok(s) == [kind |-> "ok", msg |-> "", scans |-> s]
Err(m) == [kind |-> "err", msg |-> m, scans |-> <<>>]

(***************************************************************************)
(* The view (app.rs:157-203).                                              *)
(***************************************************************************)
\* app.rs:169
is_similar(s) == s.similarity >= 70

\* descending with ties reversed: an unstable sort; a mutant of sorts_before
sorts_before_unstable(a, b) == a.similarity > b.similarity

\* app.rs:178: sort_by(|a, b| b.similarity.cmp(&a.similarity)) is a stable
\* sort, so an element stays behind every element it does not beat
sorts_before(a, b) == a.similarity >= b.similarity

RECURSIVE insert_sorted(_, _)
insert_sorted(sorted, e) ==
    IF sorted = <<>> THEN <<e>>
    ELSE IF sorts_before(Head(sorted), e)
         THEN <<Head(sorted)>> \o insert_sorted(Tail(sorted), e)
         ELSE <<e>> \o sorted

RECURSIVE sort_by_similarity(_)
sort_by_similarity(s) ==
    IF s = <<>> THEN <<>>
    ELSE insert_sorted(sort_by_similarity(SubSeq(s, 1, Len(s) - 1)), s[Len(s)])

\* the rows of the scan list; none with the prompt or the "No Morons" text
create_scan_row(done, all_scans) ==
    IF done = FALSE THEN <<>>
    ELSE sort_by_similarity(SelectSeq(all_scans, is_similar))

(***************************************************************************)
(* detector::scan (detector.rs:57-106), stage by stage.                    *)
(***************************************************************************)
\* the text the OCR engine finds in a picture: the card the game drew
\* there, when the picture is exactly one card of a window large enough to
\* show the player list centred in it
ocr_lines(image) ==
    LET fits == image.src[1] >= 1200 /\ image.src[2] >= 550
        at == <<image.x - ((image.src[1] - 1200) \div 2),
                image.y - ((image.src[2] - 550) \div 2)>>
    IN  IF fits /\ image.w = 600 /\ image.h = 180 /\ at \in SlotOrigins
        THEN lobby[at]
        ELSE BlankText

\* detector.rs:235-238: every line of the text, normalized
detect_text(image) ==
    LET lines == ocr_lines(image)
    IN  [l \in 1..Len(lines) |-> normalize(lines[l])]

\* detector.rs:88
is_short(key) == len(key) <= 1

\* detector.rs:92-100 with the blacklist walked backwards; a mutant
match_morons_reversed(key, morons) ==
    [j \in 1..Len(morons) |->
        [username |-> morons[Len(morons) + 1 - j].username,
         similarity |->
            ratio(key, normalize(morons[Len(morons) + 1 - j].username))]]

\* detector.rs:92-100 comparing with the username as written, not with
\* its key; a mutant
match_morons_raw_username(key, morons) ==
    [j \in 1..Len(morons) |->
        [username |-> morons[j].username,
         similarity |-> ratio(key, morons[j].username)]]

\* detector.rs:92-100: one ScanInfo per moron, in blacklist order
match_morons(key, morons) ==
    [j \in 1..Len(morons) |->
        [username |-> morons[j].username,
         similarity |-> ratio(key, normalize(morons[j].username))]]

RECURSIVE match_detections(_, _)
\* detector.rs:84-101
match_detections(dets, morons) ==
    IF dets = <<>> THEN <<>>
    ELSE LET detection_text_normalised == normalize(Head(dets))
         IN  (IF is_short(detection_text_normalised) THEN <<>>
              ELSE match_morons(detection_text_normalised, morons))
             \o match_detections(Tail(dets), morons)

\* a stage fails: scan returns Err(msg) from there (the ? operator, bail!)
Fail(stage, msg) ==
    /\ pc' = "return"
    /\ ret' = Err(msg)
    /\ failed' = stage

\* a stage panics: the process unwinds out of update and dies
Panic(stage) ==
    /\ pc' = "panicked"
    /\ ret' = NoRet
    /\ failed' = stage

\* app.rs:41: update borrows the application mutably and runs to its end
\* on the thread of the event loop, so it is entered only after the previous
\* call has returned; this one is entered whatever the previous call does
update_reentrant == pc # "panicked"

\* app.rs:41: the previous call of update (with the scan it made, app.rs:63)
\* has returned
update_returned == pc = "idle"

\* app.rs:61-63: update is given ScanRisk, sets the notice and calls scan
update_ScanRisk ==
    /\ update_returned
    /\ runs < MaxScanRuns
    /\ runs' = runs + 1
    /\ error' = Scanning
    /\ pc' = "blacklist"
    /\ ret' = NoRet
    /\ blacklist' = <<>>
    /\ engine' = "none"
    /\ detections' = <<>>
    /\ i' = 0
    /\ stages' = <<>>
    /\ failed' = "none"
    /\ UNCHANGED <<scans, done_initial_scan, rows>>
    /\ UNCHANGED <<envVars, diskVars, nzVars>>

\* detector.rs:58-62
LoadBlacklist ==
    /\ UNCHANGED <<runs, inbox>>
    /\ pc = "blacklist"
    /\ stages' = Append(stages, "blacklist")
    /\ \/ /\ ~blacklist_file.valid
          /\ Fail("blacklist", "Blacklist Error: invalid blacklist.json")
          /\ UNCHANGED blacklist
       \/ /\ blacklist_file.valid
          /\ blacklist' = blacklist_file.morons
          /\ pc' = "window"
          /\ UNCHANGED <<ret, failed>>
    /\ UNCHANGED <<engine, detections, i>>
    /\ UNCHANGED <<appVars, envVars, diskVars, nzVars>>

\* detector.rs:64 and 109-120: the RISK window is open, or it is not
FindWindow ==
    /\ UNCHANGED <<runs, inbox>>
    /\ pc = "window"
    /\ stages' = Append(stages, "window")
    /\ \/ Fail("window", "Unable to find RISK window.")
       \/ /\ pc' = "capture"
          /\ UNCHANGED <<ret, failed>>
    /\ UNCHANGED <<blacklist, engine, detections, i>>
    /\ UNCHANGED <<appVars, envVars, diskVars, nzVars>>

\* detector.rs:69 and 128-134: capture the window and save players.png
CaptureBy(writer) ==
    /\ UNCHANGED <<runs, inbox>>
    /\ pc = "capture"
    /\ stages' = Append(stages, "capture")
    /\ \/ /\ Fail("capture", "capture failed")
          /\ UNCHANGED scrshot
       \/ /\ scrshot' =
                File(Image(0, 0, window[1], window[2], window), writer)
          /\ pc' = "crop"
          /\ UNCHANGED <<ret, failed>>
    /\ UNCHANGED <<blacklist, engine, detections, i, crops>>
    /\ UNCHANGED <<appVars, envVars, nzVars>>

\* detector.rs:70 and 144-185
CropPlayerCardsBy(writer) ==
    /\ UNCHANGED <<runs, inbox>>
    /\ pc = "crop"
    /\ stages' = Append(stages, "crop")
    /\ \/ \* players.png cannot be opened or decoded
          /\ Fail("crop", "cannot decode players.png")
          /\ UNCHANGED crops
       \/ \* the subtraction overflows and the build checks overflow
          /\ \/ sub_overflows(scrshot[1].w, player_list_width)
             \/ sub_overflows(scrshot[1].h, player_list_height)
          /\ Panic("crop")
          /\ UNCHANGED crops
       \/ \* no overflow, or a wrapping one; a save fails after n cards
          /\ \E n \in 0..5 :
                crops' = save_cards(crops, player_list_image(scrshot[1]),
                                    n, writer)
          /\ Fail("crop", "cannot save a player card")
       \/ /\ crops' = save_cards(crops, player_list_image(scrshot[1]),
                                 6, writer)
          /\ pc' = "engine"
          /\ UNCHANGED <<ret, failed>>
    /\ UNCHANGED <<blacklist, engine, detections, i, scrshot>>
    /\ UNCHANGED <<appVars, envVars, nzVars>>

\* the two stages with the writer of the files left unrecorded
Capture == CaptureBy(0)

CropPlayerCards == CropPlayerCardsBy(0)

\* detector.rs:72 and 197-218: either model may fail to be read or loaded
CreateOcrEngine ==
    /\ UNCHANGED <<runs, inbox>>
    /\ pc = "engine"
    /\ stages' = Append(stages, "engine")
    /\ \/ /\ \E model \in {"detection", "recognition"} :
                Fail("engine", "cannot load the " \o model \o " model")
          /\ UNCHANGED engine
       \/ /\ engine' = "ready"
          /\ pc' = "detect"
          /\ UNCHANGED <<ret, failed>>
    /\ UNCHANGED <<blacklist, detections, i>>
    /\ UNCHANGED <<appVars, envVars, diskVars, nzVars>>

\* where scan goes after reading crop n - 1 with the engine built before the
\* loop, were the engine built inside the loop (once per crop)
after_crop_rebuilding(n) == IF n < 6 THEN "engine" ELSE "match"

\* detector.rs:74-82: where scan goes after reading crop n - 1: the next
\* iteration of the loop, or the matching once all six are read
after_crop(n) == IF n < 6 THEN "detect" ELSE "match"

\* detector.rs:74-82 and 225-239: one iteration of the loop over the crops
DetectText ==
    /\ UNCHANGED <<runs, inbox>>
    /\ pc = "detect"
    /\ stages' = Append(stages, "detect")
    /\ \/ \* read_image fails: .expect panics (detector.rs:230-231)
          /\ Panic("read_image")
          /\ UNCHANGED <<detections, i>>
       \/ \* prepare_input or get_text fails
          /\ crops[i] # NoFile
          /\ Fail("detect", "OCR failed")
          /\ UNCHANGED <<detections, i>>
       \/ /\ crops[i] # NoFile
          /\ detections' = detections \o detect_text(crops[i][1])
          /\ i' = i + 1
          /\ pc' = after_crop(i + 1)
          /\ UNCHANGED <<ret, failed>>
    /\ UNCHANGED <<blacklist, engine>>
    /\ UNCHANGED <<appVars, envVars, diskVars, nzVars>>

\* detector.rs:84-105
Match ==
    /\ UNCHANGED <<runs, inbox>>
    /\ pc = "match"
    /\ stages' = Append(stages, "match")
    /\ ret' = Ok(match_detections(detections, blacklist))
    /\ pc' = "return"
    /\ UNCHANGED <<blacklist, engine, detections, i, failed>>
    /\ UNCHANGED <<appVars, envVars, diskVars, nzVars>>

\* the match on the result of scan, were the Err arm to drop the scans of
\* the scan before
scan_result_stored_resetting ==
    IF ret.kind = "ok"
    THEN /\ scans' = ret.scans
         /\ done_initial_scan' = TRUE
         /\ error' = None
    ELSE /\ error' = ret.msg
         /\ scans' = <<>>
         /\ UNCHANGED done_initial_scan

\* app.rs:63-72: the match on the result of scan
scan_result_stored ==
    IF ret.kind = "ok"
    THEN /\ scans' = ret.scans
         /\ done_initial_scan' = TRUE
         /\ error' = None
    ELSE /\ error' = ret.msg
         /\ UNCHANGED <<scans, done_initial_scan>>

\* app.rs:63-72: scan has returned; then iced renders the view again
Return ==
    /\ UNCHANGED <<runs, inbox>>
    /\ pc = "return"
    /\ scan_result_stored
    /\ rows' = create_scan_row(done_initial_scan', scans')
    /\ pc' = "idle"
    \* the locals of scan are dropped
    /\ ret' = NoRet
    /\ blacklist' = <<>>
    /\ engine' = "none"
    /\ detections' = <<>>
    /\ i' = 0
    /\ stages' = <<>>
    /\ failed' = "none"
    /\ UNCHANGED <<envVars, diskVars, nzVars>>

\* open::that with its unwrap_or_else, were a successful open to clear error
open_that_clearing(failure) ==
    \/ error' = None
    \/ error' = failure

\* app.rs:46-48 and 56-58: open::that succeeds and error stays, or it fails
\* and unwrap_or_else stores the failure
open_that(failure) ==
    \/ UNCHANGED error
    \/ error' = failure

\* app.rs:44-53; the path is always Some once main has created the app
\* directory (main.rs:15-18), so only open::that can fail
update_OpenBlacklistFIle ==
    /\ UNCHANGED runs
    /\ update_returned
    /\ open_that("cannot open the blacklist")
    /\ rows' = create_scan_row(done_initial_scan, scans)
    /\ UNCHANGED <<scans, done_initial_scan>>
    /\ UNCHANGED <<scanVars, envVars, diskVars, nzVars>>

\* app.rs:55-59
update_OpenSupportUrl ==
    /\ UNCHANGED runs
    /\ update_returned
    /\ open_that("cannot open the support URL")
    /\ rows' = create_scan_row(done_initial_scan, scans)
    /\ UNCHANGED <<scans, done_initial_scan>>
    /\ UNCHANGED <<scanVars, envVars, diskVars, nzVars>>

\* the three messages, each handled the moment the user sends it
ScanRisk == update_ScanRisk /\ UNCHANGED inbox

OpenBlacklistFIle == update_OpenBlacklistFIle /\ UNCHANGED inbox

OpenSupportUrl == update_OpenSupportUrl /\ UNCHANGED inbox

\* the normalize harness at rest
NzIdle ==
    /\ nz_t = <<>>
    /\ nz_op = "none"
    /\ nz_out = <<>>

\* BlitzApp::new (app.rs:29-35)
BlitzAppNew ==
    /\ error = None
    /\ scans = <<>>
    /\ done_initial_scan = FALSE
    /\ rows = <<>>

\* the application just started: no scan running, an arbitrary environment
Init ==
    /\ BlitzAppNew
    /\ pc = "idle"
    /\ ret = NoRet
    /\ blacklist = <<>>
    /\ engine = "none"
    /\ detections = <<>>
    /\ i = 0
    /\ stages = <<>>
    /\ failed = "none"
    /\ blacklist_file \in BlacklistFiles
    /\ lobby \in Lobbies
    /\ window \in WindowSizes
    /\ runs = 0
    /\ inbox = <<>>
    /\ scrshot = NoFile
    /\ crops = [n \in 0..5 |-> NoFile]
    /\ NzIdle

Next ==
    \/ ScanRisk
    \/ LoadBlacklist
    \/ FindWindow
    \/ Capture
    \/ CropPlayerCards
    \/ CreateOcrEngine
    \/ DetectText
    \/ Match
    \/ Return
    \/ OpenBlacklistFIle
    \/ OpenSupportUrl

Spec == Init /\ [][Next]_vars

(***************************************************************************)
(* normalize applied to enumerated inputs: once, twice (detect_text and    *)
(* then scan, detector.rs:236 and 87), and to "General " + input.          *)
(***************************************************************************)
\* ' ', 'A', 'b', U+00C9, U+0130
Alphabet == {32, 65, 98, 201, 304}

\* "", "General ", "General", "general ", "General General "
NormHeads ==
    {<<>>, prefix, SubSeq(prefix, 1, 7), <<103>> \o SubSeq(prefix, 2, 8),
     prefix \o prefix}

NormInputs ==
    {h \o t : h \in NormHeads, t \in SeqsUpTo(Alphabet, MaxTail)}
    \cup UNION {{c[l] : l \in 1..Len(c)} : c \in CardTexts}

NormalizeOnce ==
    /\ nz_op = "none"
    /\ nz_out' = normalize(nz_t)
    /\ nz_op' = "once"
    /\ UNCHANGED <<nz_t, appVars, scanVars, envVars, diskVars, runs, inbox>>

NormalizeTwice ==
    /\ nz_op = "once"
    /\ nz_out' = normalize(nz_out)
    /\ nz_op' = "twice"
    /\ UNCHANGED <<nz_t, appVars, scanVars, envVars, diskVars, runs, inbox>>

NormalizePrefixed ==
    /\ nz_op = "none"
    /\ nz_out' = normalize(prefix \o nz_t)
    /\ nz_op' = "prefixed"
    /\ UNCHANGED <<nz_t, appVars, scanVars, envVars, diskVars, runs, inbox>>

InitNorm ==
    /\ BlitzAppNew
    /\ pc = "idle"
    /\ ret = NoRet
    /\ blacklist = <<>>
    /\ engine = "none"
    /\ detections = <<>>
    /\ i = 0
    /\ stages = <<>>
    /\ failed = "none"
    /\ blacklist_file = CorruptFile
    /\ lobby = [o \in SlotOrigins |-> BlankText]
    /\ window = <<1920, 1080>>
    /\ scrshot = NoFile
    /\ crops = [n \in 0..5 |-> NoFile]
    /\ runs = 0
    /\ inbox = <<>>
    /\ nz_t \in NormInputs
    /\ nz_op = "none"
    /\ nz_out = <<>>

NextNorm == NormalizeOnce \/ NormalizeTwice \/ NormalizePrefixed

SpecNorm == InitNorm /\ [][NextNorm]_vars

(***************************************************************************)
(* Claims.                                                                 *)
(***************************************************************************)

\* C6: normalize is idempotent: normalizing a normalized string (as scan
\* does with the lines detect_text already normalized) gives the key that a
\* single normalization gives.
C6_Idempotent == nz_op = "twice" => nz_out = normalize(nz_t)

\* C6 witness: a line with the prefix, capitals and spaces went through
\* normalize twice.
C6_Witness ==
    /\ nz_op = "twice"
    /\ starts_with(nz_t, prefix)
    /\ nz_t # nz_out
    /\ \E k \in 1..Len(nz_t) : k > Len(prefix) /\ nz_t[k] = SPACE

\* C7 as stated: for EVERY string t, normalize("General " + t) is
\* normalize(t).
C7_PrefixAnyTail == nz_op = "prefixed" => nz_out = normalize(nz_t)

\* C7 amended: normalize("General " + t) = normalize(t) for every t that
\* does not itself begin with "General " (otherwise only the first prefix
\* goes: the result is normalize(t) behind "general"); an input beginning
\* with "General" but not "General " keeps those seven characters, so it
\* differs from the normalized rest.
C7_PrefixRule ==
    /\ (nz_op = "prefixed" /\ ~starts_with(nz_t, prefix))
            => nz_out = normalize(nz_t)
    /\ (nz_op = "prefixed" /\ starts_with(nz_t, prefix))
            => nz_out = <<103, 101, 110, 101, 114, 97, 108>> \o normalize(nz_t)
    /\ (nz_op = "once" /\ starts_with(nz_t, SubSeq(prefix, 1, 7))
                       /\ ~starts_with(nz_t, prefix))
            => /\ starts_with(nz_out, <<103, 101, 110, 101, 114, 97, 108>>)
               /\ nz_out # normalize(SubSeq(nz_t, 8, Len(nz_t)))

\* C7 witness: "General " was put before a tail with a capital and stripped
\* again.
C7_Witness ==
    /\ nz_op = "prefixed"
    /\ ~starts_with(nz_t, prefix)
    /\ Len(nz_t) = 2
    /\ nz_t[1] = 65
    /\ nz_out = normalize(nz_t)

(***************************************************************************)
(* Vocabulary of the claims about a scan.                                  *)
(***************************************************************************)
\* the captured window is at least as large as the player-list box
WindowFits == window[1] >= 1200 /\ window[2] >= 550

\* the corner of the 1200x550 player-list box centred in the window
BoxX == (window[1] - 1200) \div 2
BoxY == (window[2] - 550) \div 2

\* crop_player_cards_1920_1080 has returned Ok in the running scan
CropDone == pc \in {"engine", "detect", "match"}

\* the crop stage of the running scan is over, whatever its outcome
CropOver == Len(stages) >= 4 /\ stages[4] = "crop"

\* scan is about to return Ok to update
ScanOk == pc = "return" /\ ret.kind = "ok"

\* the region of card n, relative to the corner of the player-list box
CardRegion(n) ==
    [x |-> crops[n][1].x - BoxX, y |-> crops[n][1].y - BoxY,
     w |-> crops[n][1].w, h |-> crops[n][1].h]

PixelIn(px, py, r) ==
    r.x <= px /\ px < r.x + r.w /\ r.y <= py /\ py < r.y + r.h

\* how many card regions hold the pixel (px, py) of the box
Coverage(px, py) ==
    Cardinality({n \in 0..5 : PixelIn(px, py, CardRegion(n))})

Disjoint(r, q) ==
    \/ r.x + r.w <= q.x
    \/ q.x + q.w <= r.x
    \/ r.y + r.h <= q.y
    \/ q.y + q.h <= r.y

CardsDisjoint ==
    \A n, m \in 0..5 : n # m => Disjoint(CardRegion(n), CardRegion(m))

\* every card region lies inside the rows 0 .. rowsOfBox-1 of the box
CardsInside(rowsOfBox) ==
    \A n \in 0..5 :
        /\ 0 <= CardRegion(n).x
        /\ CardRegion(n).x + CardRegion(n).w <= 1200
        /\ 0 <= CardRegion(n).y
        /\ CardRegion(n).y + CardRegion(n).h <= rowsOfBox

RECURSIVE CardsArea(_)
\* the summed area of the cards 0 .. n
CardsArea(n) ==
    CardRegion(n).w * CardRegion(n).h + (IF n = 0 THEN 0 ELSE CardsArea(n - 1))

\* columns and rows of the box at and next to every card border
EdgeColumns == {0, 1, 599, 600, 601, 1198, 1199}
EdgeRows == {0, 1, 179, 180, 181, 359, 360, 361, 538, 539, 540, 541, 549}

\* C1 as stated: the six card regions cover the 1200x550 box exactly once.
\* Regions that are pairwise disjoint, inside the box and of summed area
\* 1200 * 550 do so, and only those; the pixels at the borders are checked
\* one by one.
C1_CoversBox ==
    (CropDone /\ WindowFits) =>
        /\ CardsDisjoint
        /\ CardsInside(550)
        /\ CardsArea(5) = 1200 * 550
        /\ \A px \in EdgeColumns, py \in EdgeRows : Coverage(px, py) = 1

\* C1 amended: the six card regions are pairwise disjoint, lie inside the
\* box and cover exactly its rows 0..539 (1200 x 540 pixels), each pixel
\* once; the pixels of its last ten rows, 540..549, lie in no card region.
C1_CoversTopRows ==
    (CropDone /\ WindowFits) =>
        /\ CardsDisjoint
        /\ CardsInside(540)
        /\ CardsArea(5) = 1200 * 540
        /\ \A px \in EdgeColumns, py \in EdgeRows :
              Coverage(px, py) = IF py < 540 THEN 1 ELSE 0

\* C1 witness: the cards of a 1920x1080 capture have been cut, and the
\* pixel (0, 540) of the box is in none of them.
C1_Witness ==
    /\ pc = "engine"
    /\ window = <<1920, 1080>>
    /\ Coverage(0, 540) = 0
    /\ Coverage(1199, 539) = 1

\* C2: with a capture narrower than 1200 or lower than 550,
\* crop_player_cards_1920_1080 returns an error: it does not panic and it
\* does not go on with a wrapped offset.
C2_SmallImageIsError ==
    (CropOver /\ ~WindowFits) =>
        /\ pc = "return"
        /\ ret.kind = "err"
        /\ failed = "crop"

\* C3: when a stage of scan fails, no later stage runs and scan returns one
\* Err without results to update.  (Captures smaller than the player-list
\* box are C2's and are left out here.)
C3_FailFast ==
    (failed # "none" /\ WindowFits) =>
        /\ pc = "return"
        /\ ret.kind = "err"
        /\ ret.scans = <<>>

\* the keys scan derives from its detections
Keys == [k \in 1..Len(detections) |-> normalize(detections[k])]

\* C4: every detected line whose key is at most one CHARACTER long adds no
\* ScanInfo: the result holds |blacklist| items per key of two characters
\* or more, and no others.
C4_ShortKeysDropped ==
    ScanOk =>
        Len(ret.scans) =
            Len(blacklist) * Len(SelectSeq(Keys, LAMBDA key : Len(key) > 1))

\* the keys that pass the filter of detector.rs:88, in detection order
Surviving == SelectSeq(Keys, LAMBDA key : len(key) > 1)

\* C5: the result of a successful scan is the cross product of the
\* surviving detections and the blacklist entries, detection-major: item
\* (a-1)*k + j is the pair of the a-th surviving detection and the j-th
\* entry, with that entry's username as written in the blacklist.
C5_CrossProduct ==
    ScanOk =>
        /\ Len(ret.scans) = Len(Surviving) * Len(blacklist)
        /\ \A a \in 1..Len(Surviving), j \in 1..Len(blacklist) :
              ret.scans[(a - 1) * Len(blacklist) + j] =
                  [username |-> blacklist[j].username,
                   similarity |->
                       ratio(Surviving[a], normalize(blacklist[j].username))]

\* C5 witness: three players' lines survive against a blacklist naming the
\* same user twice, and every pair is in the result.
C5_Witness ==
    /\ ScanOk
    /\ Len(blacklist) = 2
    /\ blacklist[1].username = blacklist[2].username
    /\ Len(Surviving) >= 3
    /\ Len(ret.scans) = 2 * Len(Surviving)

\* the lines the OCR engine reads on the six crop files, in file order
RECURSIVE RawLines(_)
RawLines(n) ==
    (IF n = 0 THEN <<>> ELSE RawLines(n - 1)) \o ocr_lines(crops[n][1])

\* how many of the first p lines pass the filter of detector.rs:88
SurvivorsBefore(lines, p) ==
    Cardinality({q \in 1..(p - 1) : len(normalize(lines[q])) > 1})

\* C8: an OCR line whose key equals the key of a blacklist entry's username
\* and is longer than one character gives, for that pair, a ScanInfo with
\* the entry's username and similarity 100.
C8_ExactMatchIs100 ==
    ScanOk =>
        \A p \in 1..Len(RawLines(5)), j \in 1..Len(blacklist) :
            (/\ normalize(RawLines(5)[p]) = normalize(blacklist[j].username)
             /\ Len(normalize(RawLines(5)[p])) > 1)
            => ret.scans[SurvivorsBefore(RawLines(5), p) * Len(blacklist) + j]
                   = [username |-> blacklist[j].username, similarity |-> 100]

\* C8 witness: the line "General A b" was read and the blacklist names
\* "A b": the scan reports "A b" at 100.
C8_Witness ==
    /\ ScanOk
    /\ \E p \in 1..Len(RawLines(5)) : RawLines(5)[p] = prefix \o <<65, 32, 98>>
    /\ \E j \in 1..Len(blacklist) : blacklist[j].username = <<65, 32, 98>>
    /\ \E k \in 1..Len(ret.scans) :
          ret.scans[k] = [username |-> <<65, 32, 98>>, similarity |-> 100]

\* the items of q whose similarity is v, in the order of q
WithSimilarity(q, v) == SelectSeq(q, LAMBDA s : s.similarity = v)

\* C9: once a scan has succeeded, the rendered rows are exactly the stored
\* ScanInfo items of similarity 70 or more, by non-increasing similarity,
\* items of equal similarity in their scan order.
C9_RowsFilteredSorted ==
    done_initial_scan =>
        /\ \A r \in 1..Len(rows) : rows[r].similarity >= 70
        /\ \A r \in 1..(Len(rows) - 1) :
              rows[r].similarity >= rows[r + 1].similarity
        /\ \A v \in 70..100 : WithSimilarity(rows, v) = WithSimilarity(scans, v)

\* C9 witness: two different users tie at 100 in the rows shown, and an
\* item below 70 is stored but not shown.
C9_Witness ==
    /\ done_initial_scan
    /\ pc = "idle"
    /\ \E r \in 1..(Len(rows) - 1) :
          /\ rows[r].similarity = 100
          /\ rows[r + 1].similarity = 100
          /\ rows[r].username # rows[r + 1].username
    /\ \E k \in 1..Len(scans) : scans[k].similarity < 70
    /\ Len(rows) < Len(scans)

\* the origin of slot n inside the player-list box, row-major
SlotOrigin(n) == <<(n % 2) * 600, (n \div 2) * 180>>

RECURSIVE SlotLines(_)
\* the normalized lines of the cards in the slots 0 .. n-1, slot by slot
SlotLines(n) ==
    IF n = 0 THEN <<>>
    ELSE SlotLines(n - 1)
         \o [l \in 1..Len(lobby[SlotOrigin(n - 1)]) |->
                normalize(lobby[SlotOrigin(n - 1)][l])]

\* C10: the file of index row*2+col holds the 600x180 region at
\* (col*600, row*180) of the player-list box, slot 0 at (0,0) and slot 5 at
\* (600,360); scan reads the files in index order, so its detections are
\* the cards' lines slot after slot.
C10_SlotOrder ==
    /\ (CropDone /\ WindowFits) =>
          /\ \A row \in 0..2, col \in 0..1 :
                CardRegion(row * 2 + col) =
                    [x |-> col * 600, y |-> row * 180, w |-> 600, h |-> 180]
          /\ CardRegion(0).x = 0 /\ CardRegion(0).y = 0
          /\ CardRegion(5).x = 600 /\ CardRegion(5).y = 360
    /\ (pc \in {"detect", "match"} /\ WindowFits) => detections = SlotLines(i)

\* C10 witness: all six files were read in a lobby whose last card differs
\* from the others.
C10_Witness ==
    /\ pc = "match"
    /\ i = 6
    /\ WindowFits
    /\ lobby[<<600, 360>>] # lobby[<<0, 0>>]
    /\ lobby[<<0, 360>>] = lobby[<<0, 0>>]
    /\ detections = SlotLines(6)

(***************************************************************************)
(* Claims about the order of the stages of a scan.                        *)
(***************************************************************************)
\* the place of a stage in the list of steps of the module documentation
\* (detector.rs:3-8): window, screenshot and crop, OCR, blacklist, matching
DocumentedStep(stage) ==
    CASE stage = "window" -> 1
      [] stage \in {"capture", "crop"} -> 2
      [] stage \in {"engine", "detect"} -> 3
      [] stage = "blacklist" -> 4
      [] stage = "match" -> 5

\* C11: the stages of a scan run in the documented order: window lookup,
\* screenshot and crop, OCR engine and text extraction, blacklist load,
\* fuzzy matching; a stage never runs before a stage of an earlier step, and
\* when the blacklist is loaded the window has been found, captured and all
\* six crops recognised.
C11_DocumentedOrder ==
    /\ \A a, b \in 1..Len(stages) :
          a < b => DocumentedStep(stages[a]) <= DocumentedStep(stages[b])
    /\ \A k \in 1..Len(stages) :
          stages[k] = "blacklist" =>
             /\ \E a \in 1..(k - 1) : stages[a] = "window"
             /\ \E a \in 1..(k - 1) : stages[a] = "capture"
             /\ Cardinality({a \in 1..(k - 1) : stages[a] = "detect"}) = 6

\* the places of a stage in the history of the running scan
StagePlaces(stage) == {k \in 1..Len(stages) : stages[k] = stage}

\* C12: a scan constructs the OCR engine at most once, before the first
\* crop is recognised, and every one of the six recognitions runs with that
\* engine; when a model fails to load, the scan returns the error with no
\* crop recognised.
C12_OneEngine ==
    /\ Cardinality(StagePlaces("engine")) <= 1
    /\ \A d \in StagePlaces("detect") :
          /\ \E e \in StagePlaces("engine") : e < d
          /\ failed # "engine"
    /\ (pc = "detect" \/ StagePlaces("detect") # {}) =>
          /\ engine = "ready"
          /\ Cardinality(StagePlaces("engine")) = 1
    /\ pc = "match" => Cardinality(StagePlaces("detect")) = 6
    /\ failed = "engine" =>
          /\ engine = "none"
          /\ pc = "return" /\ ret.kind = "err"
          /\ ret.msg \in {"cannot load the detection model",
                          "cannot load the recognition model"}
          /\ StagePlaces("detect") = {}
          /\ detections = <<>>
          /\ i = 0

\* C12 witness: the second scan of the session has read all six crops with
\* the engine it built once.
C12_Witness ==
    /\ runs = 2
    /\ pc = "match"
    /\ engine = "ready"
    /\ Cardinality(StagePlaces("engine")) = 1
    /\ Cardinality(StagePlaces("detect")) = 6
    /\ detections # <<>>

(***************************************************************************)
(* The application with its event loop: the user may press a button at    *)
(* any time, also while update is inside scan; the message waits in the   *)
(* inbox and update is given it once the previous call has returned.      *)
(* The files record the scan that saved them.                             *)
(***************************************************************************)
\* app.rs:20-24
BlitzMessage == {"OpenBlacklistFIle", "OpenSupportUrl", "ScanRisk"}

\* the ScanRisk messages waiting in the inbox
PendingScans == Cardinality({k \in 1..Len(inbox) : inbox[k] = "ScanRisk"})

\* a button is pressed (app.rs:137-143): its message joins the inbox
Press ==
    /\ pc # "panicked"
    /\ Len(inbox) < MaxInbox
    /\ \E message \in BlitzMessage :
          /\ message = "ScanRisk" => runs + PendingScans < MaxScanRuns
          /\ inbox' = Append(inbox, message)
    /\ UNCHANGED <<appVars, scanVars, envVars, diskVars, runs, nzVars>>

\* the event loop takes the oldest message out of the inbox
Deliver(message) ==
    /\ inbox # <<>>
    /\ Head(inbox) = message
    /\ inbox' = Tail(inbox)

\* app.rs:41-43: update is called with the message
DeliverScanRisk == Deliver("ScanRisk") /\ update_ScanRisk

DeliverOpenBlacklistFIle ==
    Deliver("OpenBlacklistFIle") /\ update_OpenBlacklistFIle

DeliverOpenSupportUrl == Deliver("OpenSupportUrl") /\ update_OpenSupportUrl

\* detector.rs:69 and 70, the files marked with the number of the scan
CaptureOfScan == CaptureBy(runs)

CropPlayerCardsOfScan == CropPlayerCardsBy(runs)

\* one lobby, a blacklist file that is corrupt or names one player of the
\* lobby, a window that fits the 1920x1080 layout or is too narrow for it
InitApp ==
    /\ BlitzAppNew
    /\ pc = "idle"
    /\ ret = NoRet
    /\ blacklist = <<>>
    /\ engine = "none"
    /\ detections = <<>>
    /\ i = 0
    /\ stages = <<>>
    /\ failed = "none"
    /\ blacklist_file \in
          {CorruptFile, [valid |-> TRUE, morons |-> <<Moron(<<65, 32, 98>>)>>]}
    /\ lobby \in {l \in Lobbies : \A o \in SlotOrigins : l[o] = l[<<0, 0>>]}
    /\ window \in {<<1920, 1080>>, <<1000, 1080>>}
    /\ runs = 0
    /\ inbox = <<>>
    /\ scrshot = NoFile
    /\ crops = [n \in 0..5 |-> NoFile]
    /\ NzIdle

NextApp ==
    \/ Press
    \/ DeliverScanRisk
    \/ DeliverOpenBlacklistFIle
    \/ DeliverOpenSupportUrl
    \/ LoadBlacklist
    \/ FindWindow
    \/ CaptureOfScan
    \/ CropPlayerCardsOfScan
    \/ CreateOcrEngine
    \/ DetectText
    \/ Match
    \/ Return

SpecApp == InitApp /\ [][NextApp]_vars

\* scan is running inside update
ScanRunning == pc \notin {"idle", "panicked"}

\* the crop files the running scan has read so far
CropsRead == {n \in 0..5 : n < i}

\* C13: at most one scan is in flight: a scan starts only when update is not
\* running; while a scan runs, the waiting messages stay in the inbox, no
\* older one leaving it; players.png and the crop files are written only by
\* the capture and crop stages of the running scan and marked with its
\* number; the screenshot that is cropped and every crop file that is read
\* were written by the running scan.
C13_OneScanInFlight ==
    /\ [](/\ pc = "crop" => (scrshot # NoFile /\ scrshot[2] = runs)
          /\ pc \in {"engine", "detect", "match"} =>
                \A n \in 0..5 : crops[n] # NoFile /\ crops[n][2] = runs
          /\ \A n \in CropsRead : crops[n] # NoFile /\ crops[n][2] = runs)
    /\ [][/\ runs' # runs =>
                (pc = "idle" /\ pc' = "blacklist" /\ runs' = runs + 1)
          /\ ScanRunning =>
                (Len(inbox') >= Len(inbox)
                 /\ SubSeq(inbox', 1, Len(inbox)) = inbox)
          /\ scrshot' # scrshot =>
                (pc = "capture" /\ scrshot'[2] = runs)
          /\ \A n \in 0..5 :
                crops'[n] # crops[n] =>
                    (pc = "crop" /\ crops'[n][2] = runs)]_vars

\* C13 witness: the user pressed Scan while a scan was reading the crop
\* files it had written; the message waits in the inbox.
C13_Witness ==
    /\ pc = "detect"
    /\ i >= 1
    /\ runs = 1
    /\ inbox = <<"ScanRisk">>
    /\ \A n \in 0..5 : crops[n] # NoFile /\ crops[n][2] = runs

(***************************************************************************)
(* Claims about the fields of BlitzApp.                                    *)
(***************************************************************************)
\* the step in which update, back from scan, stores the result and returns
ScanReturns == pc = "return" /\ pc' = "idle"

\* C14: when scan returns Err, update leaves scans and done_initial_scan
\* as they were and sets error to the failure message, so the rows of the
\* scan before stay on screen beside the error; when scan returns Ok, scans
\* becomes the new results, done_initial_scan TRUE and error None.
C14_ScanResultStored ==
    [][ScanReturns =>
          /\ ret.kind \in {"ok", "err"}
          /\ ret.kind = "err" =>
                /\ scans' = scans
                /\ done_initial_scan' = done_initial_scan
                /\ error' = ret.msg
                /\ error' \notin {None, Scanning}
                /\ rows' = create_scan_row(done_initial_scan, scans)
                /\ rows' = rows
          /\ ret.kind = "ok" =>
                /\ scans' = ret.scans
                /\ done_initial_scan' = TRUE
                /\ error' = None
                /\ rows' = create_scan_row(TRUE, ret.scans)]_vars

\* C14 witness: a scan that found a blacklisted player was followed by one
\* that failed; the rows of the first are on screen beside the error.
C14_Witness ==
    /\ pc = "idle"
    /\ runs = 2
    /\ done_initial_scan
    /\ error = "capture failed"
    /\ scans # <<>>
    /\ rows # <<>>

\* a step of update that is not the handling of ScanRisk: one of the two
\* Open messages from start to end
OpenHandled == pc = "idle" /\ pc' = "idle"

\* C15: the Open messages never change scans or done_initial_scan and never
\* clear an error (when the open succeeds error stays as it was); error
\* becomes None only when a scan returns Ok; done_initial_scan never goes
\* back to FALSE; scans is empty while done_initial_scan is FALSE; and when
\* update has returned, error is not the notice "Scanning - Please wait.".
C15_FieldInvariants ==
    /\ [](/\ done_initial_scan = FALSE => scans = <<>>
          /\ pc = "idle" => error # Scanning)
    /\ [][/\ OpenHandled =>
                /\ scans' = scans
                /\ done_initial_scan' = done_initial_scan
                /\ error # None => error' # None
                /\ error' \in {error, "cannot open the blacklist",
                               "cannot open the support URL"}
          /\ (error # None /\ error' = None) =>
                (pc = "return" /\ ret.kind = "ok" /\ pc' = "idle")
          /\ done_initial_scan = TRUE => done_initial_scan' = TRUE]_vars

\* C15 witness: after two scans, one of which returned Ok, the support URL
\* failed to open: error holds that failure and the results of the scan are
\* still stored.
C15_Witness ==
    /\ pc = "idle"
    /\ runs = 2
    /\ done_initial_scan
    /\ scans # <<>>
    /\ error = "cannot open the support URL"

=============================================================================
